---- MODULE Spec2Model ----
(***************************************************************************)
(* Model of the message relay service in src/src/main.rs.                  *)
(*                                                                         *)
(* The store is the SQLite database of main(): the table users(id, name)   *)
(* and the table messages(id, author, target, text, timestamp), both with  *)
(* AUTOINCREMENT ids and neither with a UNIQUE constraint.  Each request   *)
(* (get_inbox, get_messages, send_message) is one task that runs on its    *)
(* own pool connection.  The tasks interleave at their await points: a     *)
(* step of a task is one SQL statement followed by the handler code that   *)
(* runs until the next statement is awaited (pool.acquire is taken with    *)
(* the first statement).  A statement may fail with a store error          *)
(* (sqlx::Error).                                                          *)
(***************************************************************************)
EXTENDS Integers, Sequences, FiniteSets, TLC

\* ---------------------------------------------------------------- bounds
MaxReqs == 2        \* requests accepted in one behaviour
MaxTicks == 1       \* times the wall clock advances
MaxFaults == 1      \* statements that fail with a store error

Procs == {1, 2}                         \* concurrently served requests
Names == {"alice", "bob"}               \* names a request can carry
Texts == {"hi", "hey"}                  \* message bodies
Instants == {1641013199}                \* clock at start: 2022-01-01T04:59:59Z

PoolSize == 10      \* SqlitePool::connect default max_connections

VARIABLES
    users,      \* table users: sequence of rows [id, name], in rowid order
    messages,   \* table messages: rows [id, author, target, text, timestamp]
    now,        \* Utc::now(), seconds since the Unix epoch
    proc,       \* per task: the request it serves and its position
    held,       \* tasks holding a pool connection
    reqs,       \* requests accepted so far
    ticks,      \* clock advances so far
    faults,     \* store errors that can still happen
    sent,       \* history: per message row, the payload that was sent
    returns,    \* history: completed get_or_create_user calls
    seen        \* history: names and texts carried by the requests so far

vars == <<users, messages, now, proc, held, reqs, ticks, faults,
          sent, returns, seen>>

\* ------------------------------------------------------------ the store

\* struct User
User(id, name) == [id |-> id, name |-> name]

\* the same row with the two ids bound the other way round
MessageSwapped(id, author, target, text, timestamp) ==
    [id |-> id, author |-> target, target |-> author, text |-> text,
     timestamp |-> timestamp]

\* struct Message as stored (author and target hold user ids)
Message(id, author, target, text, timestamp) ==
    [id |-> id, author |-> author, target |-> target, text |-> text,
     timestamp |-> timestamp]

\* struct OutgoingMessage
OutgoingMessage(id, author, target, text, timestamp) ==
    [id |-> id, author |-> author, target |-> target, text |-> text,
     timestamp |-> timestamp]

Min(S) == CHOOSE i \in S : \A j \in S : i <= j
Max(S) == CHOOSE i \in S : \A j \in S : i >= j

\* rowids of the users rows with this name
RowsNamed(us, name) == {i \in 1..Len(us) : us[i].name = name}

\* the same lookup returning the last matching row
get_user_last(us, name) ==
    LET rows == RowsNamed(us, name)
    IN  IF rows = {}
        THEN [found |-> FALSE, user |-> User(0, name)]
        ELSE [found |-> TRUE, user |-> us[Max(rows)]]

\* get_user: SELECT * FROM users WHERE name = ? with fetch_one.  There is no
\* index on name, so the statement scans the table in rowid order and
\* fetch_one takes the first matching row; no row is Err(RowNotFound).
get_user(us, name) ==
    LET rows == RowsNamed(us, name)
    IN  IF rows = {}
        THEN [found |-> FALSE, user |-> User(0, name)]
        ELSE [found |-> TRUE, user |-> us[Min(rows)]]

\* the same statement as INSERT OR REPLACE on a table keyed by name: a row
\* with the name is replaced by the new row
create_user_replace(us, name) ==
    LET rows == RowsNamed(us, name)
    IN  IF rows = {}
        THEN Append(us, User(Len(us) + 1, name))
        ELSE [us EXCEPT ![Min(rows)] = User(Len(us) + 1, name)]

\* create_user: INSERT INTO users (name) VALUES (?); AUTOINCREMENT id
create_user(us, name) == Append(us, User(Len(us) + 1, name))

\* get_or_create_user run with no other statement in between: the users
\* table afterwards and the user returned
get_or_create_user(us, name) ==
    LET first == get_user(us, name)
        created == create_user(us, name)
    IN  IF first.found
        THEN [users |-> us, user |-> first.user]
        ELSE [users |-> created, user |-> get_user(created, name).user]

\* --------------------------------------------------- timestamp rendering

Pad2Space(n) == IF n < 10 THEN " " \o ToString(n) ELSE ToString(n)
Pad2Zero(n) == IF n < 10 THEN "0" \o ToString(n) ELSE ToString(n)
Pad4Zero(n) ==
    IF n < 10 THEN "000" \o ToString(n)
    ELSE IF n < 100 THEN "00" \o ToString(n)
    ELSE IF n < 1000 THEN "0" \o ToString(n)
    ELSE ToString(n)

\* proleptic Gregorian date of a day count since 1970-01-01 (days >= 0)
CivilFromDays(days) ==
    LET z == days + 719468
        era == z \div 146097
        doe == z - era * 146097
        yoe == (doe - doe \div 1460 + doe \div 36524 - doe \div 146096) \div 365
        doy == doe - (365 * yoe + yoe \div 4 - yoe \div 100)
        mp == (5 * doy + 2) \div 153
        d == doy - (153 * mp + 2) \div 5 + 1
        m == IF mp < 10 THEN mp + 3 ELSE mp - 9
        y == yoe + era * 400 + (IF m <= 2 THEN 1 ELSE 0)
    IN  [year |-> y, month |-> m, day |-> d]

\* the same rendering with the zero-padded specifiers "%m/%d/%Y %I:%M%p"
FormatTimestampZero(utc) ==
    LET local == utc - 5 * 3600
        date == CivilFromDays(local \div 86400)
        sod == local % 86400
        hour == sod \div 3600
        minute == (sod % 3600) \div 60
        hour12 == IF hour % 12 = 0 THEN 12 ELSE hour % 12
    IN  Pad2Zero(date.month) \o "/" \o Pad2Zero(date.day) \o "/"
        \o Pad4Zero(date.year) \o " " \o Pad2Zero(hour12) \o ":"
        \o Pad2Zero(minute) \o (IF hour < 12 THEN "AM" ELSE "PM")

\* with_timezone(FixedOffset::west(5 * 3600)) then
\* format("%_m/%_d/%Y %_I:%M%p"): "_" pads with a space to width two,
\* %I is the 12-hour clock hour, %M is zero padded, %p is AM or PM.
FormatTimestamp(utc) ==
    LET local == utc - 5 * 3600
        date == CivilFromDays(local \div 86400)
        sod == local % 86400
        hour == sod \div 3600
        minute == (sod % 3600) \div 60
        hour12 == IF hour % 12 = 0 THEN 12 ELSE hour % 12
    IN  Pad2Space(date.month) \o "/" \o Pad2Space(date.day) \o "/"
        \o Pad4Zero(date.year) \o " " \o Pad2Space(hour12) \o ":"
        \o Pad2Zero(minute) \o (IF hour < 12 THEN "AM" ELSE "PM")

\* impl From<Message> for OutgoingMessage; the row comes out of the join, so
\* author and target are already the users' names
FromMessage(m) ==
    OutgoingMessage(m.id, m.author, m.target, m.text,
                    FormatTimestamp(m.timestamp))

\* ------------------------------------------------------------- queries

\* messages INNER JOIN users ON messages.author = author_id
\*          INNER JOIN users ON messages.target = target_id:
\* the rowids of the messages rows that have an author row and a target row
\* (users.id is the primary key, so a message joins with at most one of each)
Joinable(ms, us) ==
    {i \in 1..Len(ms) :
        /\ \E k \in 1..Len(us) : us[k].id = ms[i].author
        /\ \E k \in 1..Len(us) : us[k].id = ms[i].target}

\* the joined row of message i: author and target are the users' names
JoinedRow(ms, us, i) ==
    [id |-> ms[i].id, text |-> ms[i].text, timestamp |-> ms[i].timestamp,
     author |-> us[CHOOSE k \in 1..Len(us) : us[k].id = ms[i].author].name,
     target |-> us[CHOOSE k \in 1..Len(us) : us[k].id = ms[i].target].name]

\* the elements of s at the positions in keep, in order
KeepRows(s, keep) ==
    [k \in 1..Cardinality(keep) |->
        s[CHOOSE i \in keep : Cardinality({j \in keep : j <= i}) = k]]

\* ORDER BY timestamp over the selected rowids: the scan is in rowid order
\* and rows with equal timestamps keep their scan order
OrderByTimestamp(ms, hit) ==
    [k \in 1..Cardinality(hit) |->
        CHOOSE i \in hit :
            Cardinality({j \in hit :
                \/ ms[j].timestamp < ms[i].timestamp
                \/ ms[j].timestamp = ms[i].timestamp /\ j <= i}) = k]

\* the selected rows as the statement returns them
Fetch(ms, us, hit) ==
    LET order == OrderByTimestamp(ms, hit)
    IN  [k \in 1..Len(order) |-> JoinedRow(ms, us, order[k])]

\* .into_iter().map(From::from)
MapFrom(rows) == [k \in 1..Len(rows) |-> FromMessage(rows[k])]

\* the same query without its WHERE clause
InboxQueryAll(ms, us, uid) == Fetch(ms, us, Joinable(ms, us))

\* the same query matching on the author column
InboxQueryByAuthor(ms, us, uid) ==
    Fetch(ms, us, {i \in Joinable(ms, us) : ms[i].author = uid})

\* get_inbox's statement: ... WHERE target_id = ? ORDER BY timestamp
InboxQuery(ms, us, uid) ==
    Fetch(ms, us, {i \in Joinable(ms, us) : ms[i].target = uid})

\* the same query with only the first half of the OR clause
MessagesQueryOneWay(ms, us, me, other) ==
    Fetch(ms, us, {i \in Joinable(ms, us) :
                      ms[i].author = me /\ ms[i].target = other})

\* get_messages' statement: ... WHERE (author_id = ? AND target_id = ?)
\* OR (author_id = ? AND target_id = ?) ORDER BY timestamp, bound to
\* me, other, other, me
MessagesQuery(ms, us, me, other) ==
    Fetch(ms, us, {i \in Joinable(ms, us) :
                      \/ ms[i].author = me /\ ms[i].target = other
                      \/ ms[i].author = other /\ ms[i].target = me})

\* the same filter without the me.id == other.id escape
MessagesFilterStrict(out, me, other) ==
    KeepRows(out, {i \in 1..Len(out) : out[i].author # out[i].target})

\* the same filter with the id test the other way round
MessagesFilterLax(out, me, other) ==
    KeepRows(out, {i \in 1..Len(out) :
                      me # other \/ out[i].author # out[i].target})

\* get_messages' filter: me.id == other.id || message.author != message.target
MessagesFilter(out, me, other) ==
    KeepRows(out, {i \in 1..Len(out) :
                      me = other \/ out[i].author # out[i].target})

\* get_inbox run on a store with no other statement in between
InboxOf(us, ms, target) ==
    LET user == get_or_create_user(us, target)
    IN  MapFrom(InboxQuery(ms, user.users, user.user.id))

\* get_messages run on a store with no other statement in between
ConversationOf(us, ms, me_name, other_name) ==
    LET me == get_or_create_user(us, me_name)
        other == get_or_create_user(me.users, other_name)
        rows == MessagesQuery(ms, other.users, me.user.id, other.user.id)
    IN  MessagesFilter(MapFrom(rows), me.user.id, other.user.id)

\* ------------------------------------------------------------ the tasks

Idle ==
    [pc |-> "idle", kind |-> "none", a |-> "", b |-> "", text |-> "",
     slot |-> 1, ida |-> 0, idb |-> 0, ts |-> 0, status |-> 0,
     result |-> <<>>,
     \* history of the request
     prior |-> FALSE,       \* the name of the running resolution had been
                            \* resolved before that resolution began
     inserted |-> {},       \* slots whose resolution ran create_user
     alone |-> FALSE,       \* no other request has carried the name a
     qlen |-> 0,            \* rows in messages when the query ran
     rows |-> {},           \* ids of the message rows the request inserted
     began |-> 0,           \* rows in messages when the request arrived
     faulted |-> FALSE]     \* a statement of the request failed

InitStore ==
    /\ users = <<>>
    /\ messages = <<>>
    /\ now \in Instants
    /\ proc = [p \in Procs |-> Idle]
    /\ held = {}
    /\ reqs = 0
    /\ ticks = 0
    /\ sent = <<>>
    /\ returns = {}
    /\ seen = {}

\* main(): both tables created empty, the pool idle; the store stays up
Init == InitStore /\ faults = 0

\* the same start with a store that can fail
InitFaulty == InitStore /\ faults = MaxFaults

\* the name the current get_or_create_user call resolves
Arg(r) == IF r.slot = 1 THEN r.a ELSE r.b

\* Names and texts are opaque to the program (it only compares and copies
\* them), so requests introduce unseen ones in one fixed order.
NameOrder == <<"alice", "bob", "carol">>
TextOrder == <<"hi", "hey", "yo">>
FirstUnseen(order, universe, S) ==
    {order[i] : i \in {i \in 1..Len(order) :
        /\ order[i] \in universe \ S
        /\ \A j \in 1..(i - 1) : order[j] \in S \/ order[j] \notin universe}}
Usable(order, universe, S) ==
    (S \cap universe) \cup FirstUnseen(order, universe, S)

\* a request is served by the first free task (tasks are interchangeable)
CanBegin(p) ==
    /\ proc[p].pc \in {"idle", "done"}
    /\ \A q \in Procs : q < p => proc[q].pc \notin {"idle", "done"}
    /\ reqs < MaxReqs

\* the handler returns Err((status, _)) after a failed statement; conn is
\* dropped
Failed(r, status) ==
    [r EXCEPT !.pc = "done", !.status = status, !.faulted = TRUE]

\* a statement fails: the handler returns the mapped error
Fail(p, status) ==
    /\ faults > 0
    /\ faults' = faults - 1
    /\ proc' = [proc EXCEPT ![p] = Failed(proc[p], status)]
    /\ held' = held \ {p}

\* what the clock can have advanced by since it was last read
Elapsed == IF ticks < MaxTicks THEN {0, 1} ELSE {0}

\* the same continuation with send_message building the Message after its
\* first resolution, the target left unresolved
ResolvedOnce(r, id) ==
    IF r.kind = "send"
    THEN {[r EXCEPT !.ida = id, !.ts = now + e, !.pc = "insert"] :
             e \in Elapsed}
    ELSE IF r.slot = 1 /\ r.kind # "inbox"
         THEN {[r EXCEPT !.ida = id, !.slot = 2, !.pc = "lookup",
                         !.prior = (r.a = r.b)
                                      \/ \E x \in returns : x.name = r.b]}
         ELSE IF r.slot = 1
              THEN {[r EXCEPT !.ida = id, !.pc = "query"]}
              ELSE {[r EXCEPT !.idb = id, !.pc = "query"]}

\* get_or_create_user returned Ok(user): the handler runs on to its next
\* await, which is the second resolution, the query, or, after
\* `Message::from(payload)` has taken timestamp: Utc::now(), the INSERT
Resolved(r, id) ==
    IF r.slot = 1 /\ r.kind # "inbox"
    THEN {[r EXCEPT !.ida = id, !.slot = 2, !.pc = "lookup",
                    !.prior = (r.a = r.b) \/ \E x \in returns : x.name = r.b]}
    ELSE IF r.kind = "send"
         THEN {[r EXCEPT !.idb = id, !.ts = now + e, !.pc = "insert"] :
                  e \in Elapsed}
         ELSE IF r.slot = 1
              THEN {[r EXCEPT !.ida = id, !.pc = "query"]}
              ELSE {[r EXCEPT !.idb = id, !.pc = "query"]}

Returned(r, id) ==
    [name |-> Arg(r), id |-> id, inserted |-> r.slot \in r.inserted,
     prior |-> r.prior]

\* get_or_create_user, `match get_user(conn, name).await`:
\* Ok(user) returns it, Err(_) of any kind goes on to create_user
LookupSteps(r) ==
    LET got == get_user(users, Arg(r))
    IN  (IF got.found
         THEN {[r |-> x, fault |-> 0, ret |-> {Returned(r, got.user.id)}] :
                  x \in Resolved(r, got.user.id)}
         ELSE {[r |-> [r EXCEPT !.pc = "create"], fault |-> 0, ret |-> {}]})
        \cup
        (IF faults > 0
         THEN {[r |-> [r EXCEPT !.pc = "create", !.faulted = TRUE],
                fault |-> 1, ret |-> {}]}
         ELSE {})

\* the task's step o is taken: the clock was read if the step built the
\* Message
Step(p, base, o) ==
    /\ proc' = [base EXCEPT ![p] = o.r]
    /\ faults' = faults - o.fault
    /\ returns' = returns \cup o.ret
    /\ now' = IF o.r.pc = "insert" THEN o.r.ts ELSE now
    /\ ticks' = IF o.r.pc = "insert" THEN ticks + (o.r.ts - now) ELSE ticks

\* a handler is entered: pool.acquire().await, Err mapped to
\* INTERNAL_SERVER_ERROR, then the first get_user of its first resolution
Begin(p, kind, a, b, text) ==
    LET carried == IF kind = "inbox" THEN {a} ELSE {a, b}
        r == [Idle EXCEPT !.kind = kind, !.a = a, !.b = b, !.text = text,
                          !.alone = a \notin seen, !.began = Len(messages),
                          !.pc = "lookup",
                          !.prior = \E x \in returns : x.name = a]
        others == [q \in Procs |->
                      IF proc[q].pc # "done" /\ proc[q].a \in carried
                      THEN [proc[q] EXCEPT !.alone = FALSE] ELSE proc[q]]
    IN  /\ CanBegin(p)
        /\ a \in Usable(NameOrder, Names, seen)
        /\ kind # "inbox" => b \in Usable(NameOrder, Names, seen \cup {a})
        /\ kind = "send" => text \in Usable(TextOrder, Texts, seen)
        /\ reqs' = reqs + 1
        /\ seen' = seen \cup carried \cup (IF kind = "send" THEN {text} ELSE {})
        /\ \/ /\ Cardinality(held) < PoolSize
              /\ held' = held \cup {p}
              /\ \E o \in LookupSteps(r) : Step(p, others, o)
           \/ /\ faults > 0
              /\ faults' = faults - 1
              /\ proc' = [others EXCEPT ![p] = Failed(r, 500)]
              /\ UNCHANGED <<held, returns, now, ticks>>
        /\ UNCHANGED <<users, messages, sent>>

\* GET /inbox with payload InboxRequest {target}
get_inbox(p, target) == Begin(p, "inbox", target, "", "")

\* GET /messages with payload MessagesRequest {me, other}
get_messages(p, me, other) == Begin(p, "messages", me, other, "")

\* POST /send with payload IncomingMessage {author, target, text}
send_message(p, author, target, text) ==
    Begin(p, "send", author, target, text)

\* the first get_user of the handler's second resolution
Lookup(p) ==
    /\ proc[p].pc = "lookup"
    /\ \E o \in LookupSteps(proc[p]) : Step(p, proc, o)
    /\ UNCHANGED <<users, messages, held, reqs, sent, seen>>

\* get_or_create_user, `create_user(conn, name).await?`; the handler maps
\* the Err to NOT_FOUND
Create(p) ==
    /\ proc[p].pc = "create"
    /\ \/ /\ users' = create_user(users, Arg(proc[p]))
          /\ proc' = [proc EXCEPT ![p].pc = "relookup",
                        ![p].inserted = @ \cup {proc[p].slot}]
          /\ UNCHANGED <<held, faults>>
       \/ /\ Fail(p, 404)
          /\ UNCHANGED users
    /\ UNCHANGED <<messages, now, reqs, ticks, sent, returns, seen>>

\* get_or_create_user, `Ok(get_user(conn, name).await?)`; the row inserted
\* by create_user is there, so the statement finds a row unless it fails
Relookup(p) ==
    /\ proc[p].pc = "relookup"
    /\ LET r == proc[p]
           got == get_user(users, Arg(r))
       IN  \/ /\ got.found
              /\ \E x \in Resolved(r, got.user.id) :
                    Step(p, proc, [r |-> x, fault |-> 0,
                                   ret |-> {Returned(r, got.user.id)}])
              /\ UNCHANGED held
           \/ /\ Fail(p, 404)
              /\ UNCHANGED <<returns, now, ticks>>
    /\ UNCHANGED <<users, messages, reqs, sent, seen>>

\* the same statement as an upsert: a row with the same author and target
\* is overwritten instead of a row being added
InsertMessageUpsert(p) ==
    /\ proc[p].pc = "insert"
    /\ LET r == proc[p]
           same == {i \in 1..Len(messages) :
                      messages[i].author = r.ida /\ messages[i].target = r.idb}
       IN  \/ /\ IF same = {}
                 THEN /\ messages' = Append(messages,
                             Message(Len(messages) + 1, r.ida, r.idb, r.text,
                                     r.ts))
                      /\ sent' = Append(sent, [author |-> r.a, target |-> r.b,
                                               text |-> r.text,
                                               began |-> r.began])
                 ELSE /\ messages' = [messages EXCEPT ![Min(same)] =
                             Message(Min(same), r.ida, r.idb, r.text, r.ts)]
                      /\ sent' = sent
              /\ proc' = [proc EXCEPT ![p].pc = "done", ![p].status = 200,
                            ![p].rows = @ \cup {Len(messages')}]
              /\ held' = held \ {p}
              /\ UNCHANGED faults
           \/ /\ Fail(p, 500)
              /\ UNCHANGED <<messages, sent>>
    /\ UNCHANGED <<users, now, reqs, ticks, returns, seen>>

\* send_message, INSERT INTO messages (author, target, text, timestamp)
\* bound to author.id, target.id, message.text, message.timestamp;
\* then Ok(StatusCode::OK)
InsertMessage(p) ==
    /\ proc[p].pc = "insert"
    /\ LET r == proc[p]
       IN  \/ /\ messages' = Append(messages,
                      Message(Len(messages) + 1, r.ida, r.idb, r.text, r.ts))
              /\ sent' = Append(sent, [author |-> r.a, target |-> r.b,
                                       text |-> r.text, began |-> r.began])
              /\ proc' = [proc EXCEPT ![p].pc = "done", ![p].status = 200,
                            ![p].rows = @ \cup {Len(messages) + 1}]
              /\ held' = held \ {p}
              /\ UNCHANGED faults
           \/ /\ Fail(p, 500)
              /\ UNCHANGED <<messages, sent>>
    /\ UNCHANGED <<users, now, reqs, ticks, returns, seen>>

\* the same return with the connection kept out of the pool
RespondLeak(p, result) ==
    /\ proc' = [proc EXCEPT ![p].pc = "done", ![p].status = 200,
                            ![p].result = result,
                            ![p].qlen = Len(messages)]
    /\ UNCHANGED <<held, faults>>

\* the handler returns Ok(Json(result)); conn is dropped
Respond(p, result) ==
    /\ proc' = [proc EXCEPT ![p].pc = "done", ![p].status = 200,
                            ![p].result = result,
                            ![p].qlen = Len(messages)]
    /\ held' = held \ {p}
    /\ UNCHANGED faults

\* get_inbox, the SELECT and `messages.into_iter().map(From::from)`
QueryInbox(p) ==
    /\ proc[p].pc = "query"
    /\ proc[p].kind = "inbox"
    /\ \/ Respond(p, MapFrom(InboxQuery(messages, users, proc[p].ida)))
       \/ Fail(p, 500)
    /\ UNCHANGED <<users, messages, now, reqs, ticks, sent, returns, seen>>

\* get_messages, the SELECT and `.map(From::from).filter(..)`
QueryMessages(p) ==
    /\ proc[p].pc = "query"
    /\ proc[p].kind = "messages"
    /\ LET r == proc[p]
       IN  \/ Respond(p, MessagesFilter(
                  MapFrom(MessagesQuery(messages, users, r.ida, r.idb)),
                  r.ida, r.idb))
           \/ Fail(p, 500)
    /\ UNCHANGED <<users, messages, now, reqs, ticks, sent, returns, seen>>

Next ==
    \/ \E p \in Procs, target \in Names : get_inbox(p, target)
    \/ \E p \in Procs, me \in Names, other \in Names :
          get_messages(p, me, other)
    \/ \E p \in Procs, author \in Names, target \in Names, text \in Texts :
          send_message(p, author, target, text)
    \/ \E p \in Procs : Lookup(p)
    \/ \E p \in Procs : Create(p)
    \/ \E p \in Procs : Relookup(p)
    \/ \E p \in Procs : InsertMessage(p)
    \/ \E p \in Procs : QueryInbox(p)
    \/ \E p \in Procs : QueryMessages(p)

\* the store never fails
Spec == Init /\ [][Next]_vars

\* the store can fail MaxFaults times
SpecFaulty == InitFaulty /\ [][Next]_vars

\* the statements of a resolution and the INSERT of send_message
RunsStatement(p) ==
    Lookup(p) \/ Create(p) \/ Relookup(p) \/ InsertMessage(p)

\* the SELECT of get_inbox or get_messages
RunsQuery(p) == QueryInbox(p) \/ QueryMessages(p)

\* the tasks that are between pool.acquire and the end of their handler
InFlight == {p \in Procs : proc[p].pc \notin {"idle", "done"}}

\* the runtime polls every task that can make progress and a statement
\* returns or fails: weak fairness of each task's steps.  For the query step
\* WF_vars(RunsQuery(p)) is written out with the state predicate that
\* enables the step, pc = "query", in place of ENABLED.
Scheduled(p) ==
    /\ WF_vars(RunsStatement(p))
    /\ \/ []<>(proc[p].pc # "query")
       \/ []<><<RunsQuery(p)>>_vars

\* the store can fail and every accepted request runs on
SpecFaultyFair == SpecFaulty /\ \A p \in Procs : Scheduled(p)

TypeOK ==
    /\ \A i \in 1..Len(users) : users[i].id = i /\ users[i].name \in Names
    /\ Len(sent) = Len(messages)
    /\ \A i \in 1..Len(messages) : messages[i].id = i
    /\ held \subseteq Procs
    /\ faults \in 0..MaxFaults

\* --------------------------------------------------------------- claims

Done(p) == proc[p].pc = "done"
Ok(p) == Done(p) /\ proc[p].status = 200

\* C1: every name has at most one row in users, and exactly one once a
\* resolution of that name has completed.
C1_NameUnique ==
    \A n \in Names :
        /\ Cardinality(RowsNamed(users, n)) <= 1
        /\ (\E r \in returns : r.name = n) =>
               Cardinality(RowsNamed(users, n)) = 1

\* C2: all completed get_or_create_user calls for one name return the same
\* user id, also when two of them raced on a name that had no row.
C2_SameIdentity ==
    /\ \A r1, r2 \in returns : r1.name = r2.name => r1.id = r2.id
    /\ \A p, q \in Procs :
          (proc[p].ida # 0 /\ proc[q].ida # 0 /\ proc[p].a = proc[q].a)
              => proc[p].ida = proc[q].ida

\* two requests both missed the same name, both inserted it and both returned
C2_Witness ==
    \E p, q \in Procs :
        /\ p # q
        /\ proc[p].a = proc[q].a
        /\ 1 \in proc[p].inserted /\ 1 \in proc[q].inserted
        /\ proc[p].ida # 0 /\ proc[q].ida # 0
        /\ Cardinality(RowsNamed(users, proc[p].a)) = 2

\* C3: message rows are in timestamp order: a lower id never has a later
\* timestamp.
C3_TimestampOrder ==
    \A i, j \in 1..Len(messages) :
        i < j => messages[i].timestamp <= messages[j].timestamp

\* ids of the first n message rows sent with this target name
SentTo(t, n) == {i \in 1..n : sent[i].target = t}

\* ids of the first n message rows sent between the two names
SentBetween(x, y, n) ==
    {i \in 1..n : \/ sent[i].author = x /\ sent[i].target = y
                  \/ sent[i].author = y /\ sent[i].target = x}

\* res lists exactly the message rows in ids, each once, as they were sent,
\* in non-decreasing order of stored timestamp
ListsExactly(res, ids) ==
    /\ {res[k].id : k \in 1..Len(res)} = ids
    /\ Len(res) = Cardinality(ids)
    /\ \A k \in 1..Len(res) :
          /\ res[k].author = sent[res[k].id].author
          /\ res[k].target = sent[res[k].id].target
          /\ res[k].text = sent[res[k].id].text
    /\ \A k, l \in 1..Len(res) :
          k < l => messages[res[k].id].timestamp
                      <= messages[res[l].id].timestamp

\* every send_message accepted so far has completed
SendsCompleted == \A p \in Procs : proc[p].kind = "send" => Done(p)

\* C4: get_inbox(t) returns exactly the messages sent with target name t,
\* each once and none sent to another name, in non-decreasing timestamp
\* order: when run on the store left by completed sends, and in every
\* response given.
C4_InboxExact ==
    /\ SendsCompleted =>
          \A t \in Names :
             ListsExactly(InboxOf(users, messages, t),
                          SentTo(t, Len(messages)))
    /\ \A p \in Procs :
          (Ok(p) /\ proc[p].kind = "inbox") =>
              ListsExactly(proc[p].result, SentTo(proc[p].a, proc[p].qlen))

\* a get_inbox response that lists a message, while the store also holds
\* the row of a user that is not the target
C4_Witness ==
    \E p \in Procs :
        /\ Ok(p) /\ proc[p].kind = "inbox"
        /\ Len(proc[p].result) > 0
        /\ \E i \in 1..Len(users) : users[i].name # proc[p].a

C6_ConversationSymmetric ==
    \A i, j \in 1..Len(NameOrder) :
        (i < j /\ NameOrder[i] \in Names /\ NameOrder[j] \in Names) =>
            ConversationOf(users, messages, NameOrder[i], NameOrder[j])
                = ConversationOf(users, messages, NameOrder[j], NameOrder[i])

\* a store with a message in only one direction between two names
C6_Witness ==
    \E x, y \in Names :
        /\ x # y
        /\ \E i \in 1..Len(sent) : sent[i].author = x /\ sent[i].target = y
        /\ \A i \in 1..Len(sent) : ~(sent[i].author = y /\ sent[i].target = x)
        /\ Len(ConversationOf(users, messages, y, x)) > 0

\* C7: get_messages(me, me) returns every message sent with author = target
\* = me, each once, and no message that involves another name.
C7_SelfConversation ==
    /\ SendsCompleted =>
          \A x \in Names :
             ListsExactly(ConversationOf(users, messages, x, x),
                          SentBetween(x, x, Len(messages)))
    /\ \A p \in Procs :
          (Ok(p) /\ proc[p].kind = "messages" /\ proc[p].a = proc[p].b) =>
              ListsExactly(proc[p].result,
                           SentBetween(proc[p].a, proc[p].a, proc[p].qlen))

\* a get_messages(me, me) response that lists a message me sent to itself
C7_Witness ==
    \E p \in Procs :
        /\ Ok(p) /\ proc[p].kind = "messages" /\ proc[p].a = proc[p].b
        /\ Len(proc[p].result) = 1
        /\ proc[p].result[1].author = proc[p].a
        /\ proc[p].result[1].target = proc[p].a

\* the step in which task p's send_message returns Ok
SendCompletes(p) ==
    /\ proc[p].kind = "send" /\ proc[p].pc # "done"
    /\ proc'[p].kind = "send" /\ proc'[p].pc = "done"
    /\ proc'[p].status = 200

\* what a step does to messages: one row appended by a send_message that
\* returns Ok, nothing otherwise
SendStep ==
    /\ \A p \in Procs :
          SendCompletes(p) =>
            /\ Len(messages') = Len(messages) + 1
            /\ SubSeq(messages', 1, Len(messages)) = messages
            /\ LET m == messages'[Len(messages')]
                   a == get_user(users', proc[p].a)
                   b == get_user(users', proc[p].b)
               IN  /\ a.found /\ b.found
                   /\ m.author = a.user.id /\ m.target = b.user.id
                   /\ m.text = proc[p].text
                   /\ proc'[p].rows = {m.id}
    /\ (\A p \in Procs : ~SendCompletes(p)) => messages' = messages

\* C8: a successful send_message(a, b, text) adds exactly one row to
\* messages, with the ids that a and b resolve to and with its text, and
\* both names have a users row afterwards; no other step adds a row.
C8_SendAddsOneRow == [][SendStep]_vars

\* a send_message that created both of its users has returned Ok
C8_Witness ==
    \E p \in Procs :
        /\ Ok(p) /\ proc[p].kind = "send"
        /\ proc[p].a # proc[p].b
        /\ proc[p].inserted = {1, 2}
        /\ Cardinality(proc[p].rows) = 1

\* C9: a get_or_create_user call that began after another call for the same
\* name had returned inserts no row and returns the same id.
C9_SequentialIdempotent ==
    \A r \in returns :
        r.prior =>
            /\ ~r.inserted
            /\ \A x \in returns : x.name = r.name => x.id = r.id

\* C10: get_inbox(c), for a name c that no other request has carried,
\* returns the empty list and not an error, and leaves a users row named c
\* that a resolution of c then finds without inserting a row.
C10_InboxOfNewName ==
    \A p \in Procs :
        (Done(p) /\ proc[p].kind = "inbox" /\ proc[p].alone) =>
            /\ (~proc[p].faulted => proc[p].status = 200)
            /\ Ok(p) =>
                 /\ proc[p].result = <<>>
                 /\ proc[p].inserted = {1}
                 /\ get_user(users, proc[p].a).found
                 /\ get_or_create_user(users, proc[p].a).users = users
                 /\ get_or_create_user(users, proc[p].a).user.id = proc[p].ida

\* get_inbox of a new name has created its row and answered with the empty
\* list while the store holds a message
C10_Witness ==
    \E p \in Procs :
        /\ Ok(p) /\ proc[p].kind = "inbox" /\ proc[p].alone
        /\ proc[p].result = <<>> /\ proc[p].inserted = {1}
        /\ Len(messages) > 0

\* ids of the rows of users
UserIds == {users[k].id : k \in 1..Len(users)}

\* the name was resolved to this id by a completed get_or_create_user call
ResolvedAs(name, id) == \E x \in returns : x.name = name /\ x.id = id

\* C11: every message row's author id and target id are ids of rows of
\* users, and a send_message that is at its INSERT or has inserted has
\* resolved both of its names to the ids it binds.
C11_Referential ==
    /\ \A i \in 1..Len(messages) :
          messages[i].author \in UserIds /\ messages[i].target \in UserIds
    /\ \A p \in Procs :
          (proc[p].kind = "send" /\ (proc[p].pc = "insert" \/ Ok(p))) =>
              /\ ResolvedAs(proc[p].a, proc[p].ida)
              /\ ResolvedAs(proc[p].b, proc[p].idb)
              /\ {proc[p].ida, proc[p].idb} \subseteq UserIds
              /\ \A i \in proc[p].rows :
                    /\ messages[i].author = proc[p].ida
                    /\ messages[i].target = proc[p].idb

\* a message between two users is stored while another send_message is at
\* its INSERT
C11_Witness ==
    \E p, q \in Procs :
        /\ Ok(p) /\ proc[p].kind = "send" /\ proc[p].rows # {}
        /\ proc[p].ida # proc[p].idb
        /\ proc[q].kind = "send" /\ proc[q].pc = "insert"

\* a step keeps every message row as it is and adds one row for each
\* send_message that returns Ok in it
AppendOnlyStep ==
    /\ Len(messages') >= Len(messages)
    /\ \A i \in 1..Len(messages) : messages'[i] = messages[i]
    /\ Len(messages') - Len(messages)
          = Cardinality({p \in Procs : SendCompletes(p)})

\* C12: a message row, once stored, keeps its id, author, target, text and
\* timestamp and is never removed; every send_message that returns Ok adds
\* exactly one row and no other step adds any.
C12_AppendOnly == [][AppendOnlyStep]_vars

\* a second row was appended while the first row was stored
C12_Witness ==
    /\ Len(messages) = 2
    /\ messages[1].id = 1 /\ messages[2].id = 2
    /\ messages[1].text # messages[2].text

\* C13: a request in which a statement failed with a store error ends with
\* a server-side failure status.
C13_FailureSurfaced ==
    \A p \in Procs :
        (Done(p) /\ proc[p].faulted) => proc[p].status >= 500

\* a task holds a connection exactly while its request is at a statement,
\* and no more connections are out than the pool has
ConnectionScoped ==
    /\ held = InFlight
    /\ Cardinality(held) <= PoolSize

Responses ==
    UNION {{proc[p].result[k] : k \in 1..Len(proc[p].result)} :
              p \in {q \in Procs : Ok(q) /\ proc[q].kind # "send"}}

\* M/D/YYYY H:MMam|pm at UTC-5 with no padding on month, day and hour
FormatUnpadded(utc) ==
    LET local == utc - 5 * 3600
        date == CivilFromDays(local \div 86400)
        sod == local % 86400
        hour == sod \div 3600
        minute == (sod % 3600) \div 60
        hour12 == IF hour % 12 = 0 THEN 12 ELSE hour % 12
    IN  ToString(date.month) \o "/" \o ToString(date.day) \o "/"
        \o ToString(date.year) \o " " \o ToString(hour12) \o ":"
        \o Pad2Zero(minute) \o (IF hour < 12 THEN "am" ELSE "pm")

\* C15 as stated: every returned timestamp is the stored instant at UTC-5
\* rendered as M/D/YYYY H:MMam|pm with no padding on month, day and hour
\* and lower-case am/pm.
C15_FormatUnpadded ==
    \A m \in Responses :
        m.timestamp = FormatUnpadded(messages[m.id].timestamp)

\* UTC instants (a range of seconds within one minute) and what
\* "%_m/%_d/%Y %_I:%M%p" at five hours west of UTC prints for them: the last
\* minute of 2021 and the first of 2022 at UTC-5, a summer noon, two-digit
\* month, day and hour, a one-digit afternoon hour, a leap day, the epoch day
RenderingSamples ==
    {[from |-> 1641013140, to |-> 1641013199, text |-> "12/31/2021 11:59PM"],
     [from |-> 1641013200, to |-> 1641013259, text |-> " 1/ 1/2022 12:00AM"],
     [from |-> 1656954300, to |-> 1656954300, text |-> " 7/ 4/2022 12:05PM"],
     [from |-> 1668526200, to |-> 1668526200, text |-> "11/15/2022 10:30AM"],
     [from |-> 1646856420, to |-> 1646856420, text |-> " 3/ 9/2022  3:07PM"],
     [from |-> 1709208000, to |-> 1709208000, text |-> " 2/29/2024  7:00AM"],
     [from |-> 18000, to |-> 18000, text |-> " 1/ 1/1970 12:00AM"]}

\* FormatTimestamp prints every sample as listed
SamplesRendered ==
    \A s \in RenderingSamples :
        FormatTimestamp(s.from) = s.text /\ FormatTimestamp(s.to) = s.text

\* C15 as amended: every returned timestamp is the stored instant shifted
\* five hours west, summer and winter alike, rendered as M/D/YYYY H:MMAM|PM
\* with month, day and hour padded to width two with a space (never with a
\* zero), the minute zero padded and AM/PM in upper case; it depends on the
\* stored instant only.
C15_FormatPadded ==
    /\ SamplesRendered
    /\ \A m \in Responses :
          \E s \in RenderingSamples :
              /\ messages[m.id].timestamp \in s.from..s.to
              /\ m.timestamp = s.text

\* a read has returned a message stored in the first minute of 2022 at
\* UTC-5, whose month, day and hour print padded
C15_Witness ==
    \E m \in Responses :
        /\ messages[m.id].timestamp >= 1641013200
        /\ m.timestamp = " 1/ 1/2022 12:00AM"

\* every message row joined with its users and rendered, in timestamp order
AllRows == MapFrom(Fetch(messages, users, Joinable(messages, users)))

\* C16: when me and other resolve to different ids, get_messages returns no
\* message whose author name equals its target name: run with those ids,
\* its filter drops every such row among the stored rows and keeps every
\* other row.
C16_NoSelfRows ==
    \A p \in Procs :
        (proc[p].kind = "messages" /\ proc[p].idb # 0
            /\ proc[p].ida # proc[p].idb) =>
            /\ \A k \in 1..Len(proc[p].result) :
                  proc[p].result[k].author # proc[p].result[k].target
            /\ LET all == AllRows
                   res == MessagesFilter(all, proc[p].ida, proc[p].idb)
               IN  /\ \A k \in 1..Len(res) : res[k].author # res[k].target
                   /\ {res[k].id : k \in 1..Len(res)}
                         = {all[i].id : i \in {j \in 1..Len(all) :
                               all[j].author # all[j].target}}

\* get_messages has resolved its two names to different ids while a message
\* that a user sent to itself is stored, which the filter drops
C16_Witness ==
    \E p \in Procs :
        /\ Ok(p) /\ proc[p].kind = "messages" /\ proc[p].ida # proc[p].idb
        /\ Len(MessagesFilter(AllRows, proc[p].ida, proc[p].idb))
              < Len(AllRows)

\* C17: a get_or_create_user call that has just inserted a users row had a
\* lookup that found no row: no statement of its request has failed.
C17_InsertOnlyOnMiss ==
    \A p \in Procs : proc[p].pc = "relookup" => ~proc[p].faulted

\* the step in which task p's create_user inserts its row
CreateInserts(p) == proc[p].pc = "create" /\ proc'[p].pc = "relookup"

\* the row a call inserts is the row that a lookup of its name returns from
\* then on (rows are never removed and ids only grow, so this is the row
\* the call's re-lookup returns)
OwnRowStep ==
    \A p \in Procs :
        CreateInserts(p) =>
            get_user(users', Arg(proc[p])).user.id = users'[Len(users')].id

\* C18: the id a get_or_create_user call returns from its re-lookup after
\* inserting a row is the id of the row this call inserted, whatever other
\* requests resolving the same name do in between.
C18_ReturnsOwnRow == [][OwnRowStep]_vars

\* task p serves a get_inbox or get_messages and takes the step
ReadActs(p) ==
    /\ proc[p].kind \in {"inbox", "messages"}
    /\ proc[p].pc \notin {"idle", "done"}
    /\ proc'[p] # proc[p]

\* the names carried by the request of task p
Carried(p) == IF proc[p].kind = "inbox" THEN {proc[p].a}
              ELSE {proc[p].a, proc[p].b}

\* what a step of a read does to the store: messages is left as it is,
\* every users row stays, and a row it adds is the one row of a resolution
\* of a name of the request that had not inserted yet
FrameStep ==
    \A p \in Procs :
        ReadActs(p) =>
            /\ messages' = messages
            /\ Len(users') \in {Len(users), Len(users) + 1}
            /\ \A i \in 1..Len(users) : users'[i] = users[i]
            /\ Len(users') = Len(users) + 1 =>
                  /\ users'[Len(users')].name \in Carried(p)
                  /\ proc[p].slot \notin proc[p].inserted
                  /\ proc'[p].inserted = proc[p].inserted \cup {proc[p].slot}
                  /\ proc[p].slot \in
                        (IF proc[p].kind = "inbox" THEN {1} ELSE {1, 2})

\* C19: get_inbox and get_messages never change messages; to users they
\* only add rows, named by the names of the request, at most one for
\* get_inbox and two for get_messages; they change and remove no users row.
C19_ReadFrame == [][FrameStep]_vars

\* get_messages has answered after adding a row for each of its two names,
\* next to a row that another request added, and a message is stored
C19_Witness ==
    \E p \in Procs :
        /\ Ok(p) /\ proc[p].kind = "messages"
        /\ proc[p].inserted = {1, 2}
        /\ Len(users) > 2
        /\ Len(messages) > 0

====
